---- MODULE Spec2Model ----
(***************************************************************************)
(* next-zod-route: the RouteHandlerBuilder (src/src/routeHandlerBuilder.ts) *)
(* as a state machine.  A builder is configured by chained calls, handler() *)
(* closes over it and yields the route, and every invocation of the route  *)
(* runs the closure of lines 119-209, suspended at each of its awaits.     *)
(***************************************************************************)
EXTENDS Naturals, Sequences, FiniteSets, TLC

VARIABLES builder, route, inv, builders, routes, madeBy

vars == <<builder, route, inv, builders, routes, madeBy>>

\* the builder objects a program holds, the routes it built from them, and the
\* call that made each builder
store == <<builders, routes, madeBy>>

(***************************************************************************)
(* Bounds of the model.                                                    *)
(***************************************************************************)
\* the longest middleware list a builder is given
MaxMiddlewares == 2

\* the most builder objects a program holds, and the most routes it builds from them
MaxBuilders == 3
MaxRoutes == 1

(***************************************************************************)
(* JavaScript values.  Objects are functions from keys to values; a JSON   *)
(* number is written "#n" so that every leaf is a string.                  *)
(***************************************************************************)
Undefined == [jsUndefined |-> TRUE]

EmptyObject == [k \in {} |-> ""]

\* { ...a, ...b }: the keys of both, b's value on a collision
Spread(a, b) == [k \in (DOMAIN a) \cup (DOMAIN b) |-> IF k \in DOMAIN b THEN b[k] ELSE a[k]]

\* Object.fromEntries: later entries overwrite earlier ones
RECURSIVE fromEntries(_)
fromEntries(entries) ==
    IF entries = <<>> THEN EmptyObject
    ELSE LET n == Len(entries)
         IN  Spread(fromEntries(SubSeq(entries, 1, n - 1)), (entries[n][1] :> entries[n][2]))

\* JSON.stringify: the text that serialises v (told apart from a raw string)
JSON_stringify(v) == [json |-> v]

\* a value JSON.stringify throws a TypeError on: an object holding a BigInt
Unserializable == [total |-> "10n"]

\* JSON.stringify(v) returns rather than throws
CanStringify(v) == v # Unserializable

\* a string that is not the serialisation of a value of the model
RawText(s) == [raw |-> s]

\* String.prototype.includes on the header values of the model
includes(contentType, needle) ==
    CASE contentType = "multipart/form-data; boundary=x" -> needle = "multipart/form-data"
      [] contentType = "application/x-www-form-urlencoded" -> needle = "application/x-www-form-urlencoded"
      [] OTHER -> FALSE

(***************************************************************************)
(* Errors: a class and a message.                                          *)
(***************************************************************************)
Error(class, message) == [class |-> class, message |-> message]

\* error instanceof InternalRouteHandlerError
IsInternalRouteHandlerError(error) == error.class = "InternalRouteHandlerError"

(***************************************************************************)
(* Schemas (zod), by name: the three schemas of the test suite, and a body  *)
(* schema whose key has a default, z.object({field: z.string()             *)
(* .default("none")}).  Each is a z.object over one key; safeParse strips   *)
(* the keys the schema does not name and reports issues when the key is    *)
(* missing and has no default, or fails its check.                         *)
(***************************************************************************)
UUID == "550e8400-e29b-41d4-a716-446655440000"

SchemaKey(schema) ==
    CASE schema = "paramsSchema" -> "id"
      [] schema = "querySchema" -> "search"
      [] schema = "bodySchema" -> "field"
      [] schema = "defaultSchema" -> "field"

IsNumber(v) == v \in {"#123"}

SchemaCheck(schema, v) ==
    CASE schema = "paramsSchema" -> v = UUID                     \* z.string().uuid()
      [] schema = "querySchema" -> ~IsNumber(v) /\ v # ""        \* z.string().min(1)
      [] schema = "bodySchema" -> ~IsNumber(v)                   \* z.string()
      [] schema = "defaultSchema" -> ~IsNumber(v)                \* z.string().default("none")

\* the schemas whose key has a default, and the default
HasDefault(schema) == schema = "defaultSchema"

SchemaDefault(schema) == "none"

safeParse(schema, value) ==
    LET key == SchemaKey(schema)
    IN  IF key \notin DOMAIN value /\ HasDefault(schema)
        THEN [success |-> TRUE, data |-> (key :> SchemaDefault(schema))]
        ELSE IF key \notin DOMAIN value
        THEN [success |-> FALSE,
              error |-> [issues |-> <<[code |-> "invalid_type", path |-> <<key>>]>>]]
        ELSE IF ~SchemaCheck(schema, value[key])
        THEN [success |-> FALSE,
              error |-> [issues |-> <<[code |-> "invalid_value", path |-> <<key>>]>>]]
        ELSE [success |-> TRUE, data |-> (key :> value[key])]

(***************************************************************************)
(* The host's Request and Response, and the route context.                 *)
(***************************************************************************)
Methods == {"GET", "POST", "DELETE"}

Urls == {"http://localhost/", "http://localhost/?search=test&page=2"}

\* new URL(request.url).searchParams.entries()
searchParams(url) ==
    CASE url = "http://localhost/" -> <<>>
      [] url = "http://localhost/?search=test&page=2" -> << <<"search", "test">>, <<"page", "2">> >>

\* the request's headers: with or without a content-type
HeaderSets ==
    {EmptyObject,
     [contentType |-> "application/json"],
     [contentType |-> "application/x-www-form-urlencoded"],
     [contentType |-> "multipart/form-data; boundary=x"]}

\* request.headers.get(name): null when the header is absent
headers_get(headers, name) == IF name \in DOMAIN headers THEN headers[name] ELSE "null"

\* the request's payload, as text
Payloads == {"{field:test-field,extra:x}", "{field:123}", "field=test-field"}

\* the values context.params resolves to (Undefined: the context carries none)
ContextParams == {Undefined, [id |-> UUID, slug |-> "a"], [id |-> "invalid-uuid"]}

Requests == [method : Methods, url : Urls, headers : HeaderSets, payload : Payloads]

\* await request.json(): the parsed value, or a SyntaxError (a urlencoded payload
\* is not JSON)
request_json(request) ==
    CASE request.payload = "{field:test-field,extra:x}" ->
            [ok |-> TRUE, value |-> [field |-> "test-field", extra |-> "x"]]
      [] request.payload = "{field:123}" ->
            [ok |-> TRUE, value |-> [field |-> "#123"]]
      [] OTHER ->
            [ok |-> FALSE, error |-> Error("SyntaxError", RawText("Unexpected token in JSON"))]

\* await request.formData(), as its entries: a urlencoded body splits at & and =,
\* a multipart content-type over a body that has no boundary is a TypeError
request_formData(request) ==
    IF includes(headers_get(request.headers, "contentType"), "multipart/form-data")
    THEN [ok |-> FALSE, error |-> Error("TypeError", RawText("Failed to parse body as FormData"))]
    ELSE IF request.payload = "field=test-field"
    THEN [ok |-> TRUE, entries |-> << <<"field", "test-field">> >>]
    ELSE [ok |-> TRUE, entries |-> << <<request.payload, "">> >>]

\* new Response(body, init)
Response(body, init) ==
    [class |-> "Response",
     status |-> init.status,
     headers |-> IF "headers" \in DOMAIN init THEN init.headers ELSE EmptyObject,
     body |-> body]

\* result instanceof Response
IsResponse(v) == "class" \in DOMAIN v /\ v["class"] = "Response"

(***************************************************************************)
(* The builder.                                                            *)
(***************************************************************************)
ParamsSchemas == {"paramsSchema"}
QuerySchemas == {"querySchema"}
BodySchemas == {"bodySchema"}

\* a body schema that accepts the empty object: its key has a default
DefaultSchemas == {"defaultSchema"}
MiddlewareFns == {"middleware1", "middleware2"}
UserHandlers == {"userHandler"}

\* the constructor: what the options do not give takes its default
RouteHandlerBuilder(opts) ==
    [config |-> IF "config" \in DOMAIN opts
                THEN opts.config
                ELSE [paramsSchema |-> "undefined", querySchema |-> "undefined", bodySchema |-> "undefined"],
     middlewares |-> IF "middlewares" \in DOMAIN opts THEN opts.middlewares ELSE <<>>,
     handleServerError |-> IF "handleServerError" \in DOMAIN opts THEN opts.handleServerError ELSE "undefined"]

\* the error handlers createZodRoute is given: none, the one of the test suite,
\* or one that answers a CustomError and throws every other error again
ServerErrorHandlers == {"undefined", "handleServerError", "rethrowingHandler"}

\* the test suite's handleServerError
handleServerError(error) ==
    IF error.class = "CustomError"
    THEN Response(JSON_stringify([message |-> error.class, details |-> error.message]), [status |-> 400])
    ELSE Response(JSON_stringify([message |-> "Something went wrong"]), [status |-> 400])

\* this.handleServerError(error): the response it returns, or the error it throws
CallServerErrorHandler(fn, error) ==
    CASE fn = "handleServerError" -> [ok |-> TRUE, value |-> handleServerError(error)]
      [] fn = "rethrowingHandler" ->
            IF error.class = "CustomError"
            THEN [ok |-> TRUE, value |-> handleServerError(error)]
            ELSE [ok |-> FALSE, error |-> error]

params(schema) ==
    /\ route = Undefined
    /\ builder' = RouteHandlerBuilder(
                     Spread(builder, [config |-> Spread(builder.config, [paramsSchema |-> schema])]))
    /\ UNCHANGED <<route, inv, store>>

query(schema) ==
    /\ route = Undefined
    /\ builder' = RouteHandlerBuilder(
                     Spread(builder, [config |-> Spread(builder.config, [querySchema |-> schema])]))
    /\ UNCHANGED <<route, inv, store>>

body(schema) ==
    /\ route = Undefined
    /\ builder' = RouteHandlerBuilder(
                     Spread(builder, [config |-> Spread(builder.config, [bodySchema |-> schema])]))
    /\ UNCHANGED <<route, inv, store>>

use(middleware) ==
    /\ route = Undefined
    /\ Len(builder.middlewares) < MaxMiddlewares
    /\ builder' = RouteHandlerBuilder(
                     Spread(builder, [middlewares |-> Append(builder.middlewares, middleware)]))
    /\ UNCHANGED <<route, inv, store>>

\* handler calling the user's handler once while it builds the route
handler_CallsUserFn(userFn) ==
    /\ route = Undefined
    /\ route' = [this |-> builder, handler |-> userFn]
    /\ inv' = [r \in DOMAIN inv |->
                  [inv[r] EXCEPT !.trace = Append(@, [ev |-> "handler", fn |-> userFn, context |-> EmptyObject])]]
    /\ UNCHANGED <<builder, store>>

\* handler(userFn): the closure over this and the user's handler; nothing runs
handler(userFn) ==
    /\ route = Undefined
    /\ route' = [this |-> builder, handler |-> userFn]
    /\ UNCHANGED <<builder, inv, store>>

(***************************************************************************)
(* One invocation of the route: the frame of the async closure.  pc is the *)
(* await it is suspended at; trace is the history of the calls it made.    *)
(***************************************************************************)
Invocations == {"r1"}

IdleFrame ==
    [pc |-> "idle", request |-> Undefined, context |-> Undefined,
     params |-> Undefined, query |-> Undefined, body |-> Undefined,
     middlewareContext |-> Undefined, i |-> 0, error |-> Undefined,
     response |-> Undefined, trace |-> <<>>]

\* what user code throws: a subclass of Error, a plain Error, and the exported
\* InternalRouteHandlerError carrying a message of the user's choice
UserErrors ==
    {Error("CustomError", RawText("Test error")),
     Error("Error", RawText("secret")),
     Error("InternalRouteHandlerError", JSON_stringify([message |-> "Invalid body", errors |-> <<>>]))}

\* what a middleware resolves to when it does not throw: the fragment it adds
MiddlewareResult(fn) ==
    CASE fn = "middleware1" -> [x |-> "1"]
      [] fn = "middleware2" -> [x |-> "2", y |-> "3"]

\* what the user's handler resolves to, given its context argument: a plain
\* object, an object that JSON cannot hold, or a Response it built
HandlerResults(ctx) ==
    {ctx,
     Unserializable,
     Response(JSON_stringify([custom |-> "response"]), [status |-> 201, headers |-> [XCustomHeader |-> "test"]])}

Log(f, event) == [f EXCEPT !.trace = Append(@, event)]

Return(f, response) == [f EXCEPT !.pc = "done", !.response = response]

\* an error thrown out of the catch clause: the promise of the closure rejects
Reject(f, error) == [f EXCEPT !.pc = "rejected", !.error = error]

\* the catch clause's call of the configured error handler
HandleServerError(f) ==
    LET call == CallServerErrorHandler(route.this.handleServerError, f.error)
    IN  IF call.ok
        THEN Return(Log(f, [ev |-> "handleServerError", error |-> f.error, returned |-> call.value]),
                    call.value)
        ELSE Reject(Log(f, [ev |-> "handleServerError", error |-> f.error, thrown |-> call.error]),
                    call.error)

\* Catch with its two tests exchanged: the custom handler, when there is one,
\* is asked before the error's class is looked at
Catch_HandlerFirst(f) ==
    IF route.this.handleServerError # "undefined"
    THEN HandleServerError(f)
    ELSE IF IsInternalRouteHandlerError(f.error)
    THEN Return(f, Response(f.error.message, [status |-> 400]))
    ELSE Return(f, Response(JSON_stringify([message |-> "Internal server error"]), [status |-> 500]))

\* the catch clause, entered with the thrown value in f.error
Catch(f) ==
    IF IsInternalRouteHandlerError(f.error)
    THEN Return(f, Response(f.error.message, [status |-> 400]))
    ELSE IF route.this.handleServerError # "undefined"
    THEN HandleServerError(f)
    ELSE Return(f, Response(JSON_stringify([message |-> "Internal server error"]), [status |-> 500]))

Throw(f, error) == Catch([f EXCEPT !.error = error])

\* ValidateParams without its throw: a rejection is noted and the pipeline goes on
ValidateParams_NoThrow(f) ==
    IF route.this.config.paramsSchema # "undefined"
    THEN LET paramsResult == safeParse(route.this.config.paramsSchema, f.params)
             g == Log(f, [ev |-> "safeParse", slot |-> "params", success |-> paramsResult.success])
         IN  IF ~paramsResult.success THEN g ELSE [g EXCEPT !.params = paramsResult.data]
    ELSE f

ValidateParams(f) ==
    IF route.this.config.paramsSchema # "undefined"
    THEN LET paramsResult == safeParse(route.this.config.paramsSchema, f.params)
             g == Log(f, [ev |-> "safeParse", slot |-> "params", success |-> paramsResult.success])
         IN  IF ~paramsResult.success
             THEN [g EXCEPT !.error =
                     Error("InternalRouteHandlerError",
                           JSON_stringify([message |-> "Invalid params", errors |-> paramsResult.error.issues]))]
             ELSE [g EXCEPT !.params = paramsResult.data]
    ELSE f

\* ValidateQuery parsing with an empty object schema when none is configured:
\* the slot is validated all the same and its keys are stripped
ValidateQuery_StripsUnconfigured(f) ==
    IF route.this.config.querySchema # "undefined"
    THEN LET queryResult == safeParse(route.this.config.querySchema, f.query)
             g == Log(f, [ev |-> "safeParse", slot |-> "query", success |-> queryResult.success])
         IN  IF ~queryResult.success
             THEN [g EXCEPT !.error =
                     Error("InternalRouteHandlerError",
                           JSON_stringify([message |-> "Invalid query", errors |-> queryResult.error.issues]))]
             ELSE [g EXCEPT !.query = queryResult.data]
    ELSE [Log(f, [ev |-> "safeParse", slot |-> "query", success |-> TRUE]) EXCEPT !.query = EmptyObject]

ValidateQuery(f) ==
    IF route.this.config.querySchema # "undefined"
    THEN LET queryResult == safeParse(route.this.config.querySchema, f.query)
             g == Log(f, [ev |-> "safeParse", slot |-> "query", success |-> queryResult.success])
         IN  IF ~queryResult.success
             THEN [g EXCEPT !.error =
                     Error("InternalRouteHandlerError",
                           JSON_stringify([message |-> "Invalid query", errors |-> queryResult.error.issues]))]
             ELSE [g EXCEPT !.query = queryResult.data]
    ELSE f

\* ValidateBody without the assignment of the schema's output to body
ValidateBody_KeepsRaw(f) ==
    IF route.this.config.bodySchema # "undefined"
    THEN LET bodyResult == safeParse(route.this.config.bodySchema, f.body)
             g == Log(f, [ev |-> "safeParse", slot |-> "body", success |-> bodyResult.success])
         IN  IF ~bodyResult.success
             THEN [g EXCEPT !.error =
                     Error("InternalRouteHandlerError",
                           JSON_stringify([message |-> "Invalid body", errors |-> bodyResult.error.issues]))]
             ELSE g
    ELSE f

\* ValidateBody applying the schema only to a body that was read: on a GET or a
\* DELETE the empty body goes on unvalidated
ValidateBody_OnlyWhenRead(f) ==
    IF route.this.config.bodySchema # "undefined" /\ f.request.method \notin {"GET", "DELETE"}
    THEN LET bodyResult == safeParse(route.this.config.bodySchema, f.body)
             g == Log(f, [ev |-> "safeParse", slot |-> "body", success |-> bodyResult.success])
         IN  IF ~bodyResult.success
             THEN [g EXCEPT !.error =
                     Error("InternalRouteHandlerError",
                           JSON_stringify([message |-> "Invalid body", errors |-> bodyResult.error.issues]))]
             ELSE [g EXCEPT !.body = bodyResult.data]
    ELSE f

ValidateBody(f) ==
    IF route.this.config.bodySchema # "undefined"
    THEN LET bodyResult == safeParse(route.this.config.bodySchema, f.body)
             g == Log(f, [ev |-> "safeParse", slot |-> "body", success |-> bodyResult.success])
         IN  IF ~bodyResult.success
             THEN [g EXCEPT !.error =
                     Error("InternalRouteHandlerError",
                           JSON_stringify([message |-> "Invalid body", errors |-> bodyResult.error.issues]))]
             ELSE [g EXCEPT !.body = bodyResult.data]
    ELSE f

\* the call of the user's handler, which the closure then awaits
CallHandler(f) ==
    LET ctx == [params |-> f.params, query |-> f.query, body |-> f.body, data |-> f.middlewareContext]
    IN  [Log(f, [ev |-> "handler", fn |-> route.handler, context |-> ctx]) EXCEPT !.pc = "awaitHandler"]

\* MiddlewareLoop calling every middleware with an empty context
MiddlewareLoop_EmptyContext(f) ==
    IF f.i <= Len(route.this.middlewares)
    THEN [Log(f, [ev |-> "middleware", i |-> f.i, fn |-> route.this.middlewares[f.i],
                  context |-> EmptyObject])
            EXCEPT !.pc = "awaitMiddleware"]
    ELSE CallHandler(f)

\* the head of the for loop: the call of the next middleware, which the closure
\* then awaits, or the call of the handler after the last one
MiddlewareLoop(f) ==
    IF f.i <= Len(route.this.middlewares)
    THEN [Log(f, [ev |-> "middleware", i |-> f.i, fn |-> route.this.middlewares[f.i],
                  context |-> f.middlewareContext])
            EXCEPT !.pc = "awaitMiddleware"]
    ELSE CallHandler(f)

\* Validation with the query checked before the params
Validation_QueryFirst(f) ==
    LET f1 == ValidateQuery(f)
    IN  IF f1.error # Undefined THEN Catch(f1)
        ELSE LET f2 == ValidateParams(f1)
             IN  IF f2.error # Undefined THEN Catch(f2)
                 ELSE LET f3 == ValidateBody(f2)
                      IN  IF f3.error # Undefined THEN Catch(f3)
                          ELSE MiddlewareLoop([f3 EXCEPT !.middlewareContext = EmptyObject, !.i = 1])

\* Validation with the body checked before the query
Validation_BodyBeforeQuery(f) ==
    LET f1 == ValidateParams(f)
    IN  IF f1.error # Undefined THEN Catch(f1)
        ELSE LET f2 == ValidateBody(f1)
             IN  IF f2.error # Undefined THEN Catch(f2)
                 ELSE LET f3 == ValidateQuery(f2)
                      IN  IF f3.error # Undefined THEN Catch(f3)
                          ELSE MiddlewareLoop([f3 EXCEPT !.middlewareContext = EmptyObject, !.i = 1])

\* Validation with the params checked after the query and the body
Validation_ParamsLast(f) ==
    LET f1 == ValidateQuery(f)
    IN  IF f1.error # Undefined THEN Catch(f1)
        ELSE LET f2 == ValidateBody(f1)
             IN  IF f2.error # Undefined THEN Catch(f2)
                 ELSE LET f3 == ValidateParams(f2)
                      IN  IF f3.error # Undefined THEN Catch(f3)
                          ELSE MiddlewareLoop([f3 EXCEPT !.middlewareContext = EmptyObject, !.i = 1])

\* from the validation of the three slots to the next await
Validation(f) ==
    LET f1 == ValidateParams(f)
    IN  IF f1.error # Undefined THEN Catch(f1)
        ELSE LET f2 == ValidateQuery(f1)
             IN  IF f2.error # Undefined THEN Catch(f2)
                 ELSE LET f3 == ValidateBody(f2)
                      IN  IF f3.error # Undefined THEN Catch(f3)
                          ELSE MiddlewareLoop([f3 EXCEPT !.middlewareContext = EmptyObject, !.i = 1])

\* Extraction without the urlencoded alternative: only a multipart content-type
\* selects the form parser
Extraction_FormOnlyMultipart(f) ==
    LET g == [f EXCEPT !.query = fromEntries(searchParams(f.request.url)), !.body = EmptyObject]
    IN  IF g.request.method # "GET" /\ g.request.method # "DELETE"
        THEN LET header == headers_get(g.request.headers, "contentType")
                 contentType == IF header = "null" THEN "" ELSE header
             IN  IF includes(contentType, "multipart/form-data")
                 THEN [Log(g, [ev |-> "formData"]) EXCEPT !.pc = "awaitFormData"]
                 ELSE [Log(g, [ev |-> "json"]) EXCEPT !.pc = "awaitJson"]
        ELSE Validation(g)

\* Extraction without the test of the method: the body is read on every request
Extraction_ReadsEveryMethod(f) ==
    LET g == [f EXCEPT !.query = fromEntries(searchParams(f.request.url)), !.body = EmptyObject]
        header == headers_get(g.request.headers, "contentType")
        contentType == IF header = "null" THEN "" ELSE header
    IN  IF \/ includes(contentType, "multipart/form-data")
           \/ includes(contentType, "application/x-www-form-urlencoded")
        THEN [Log(g, [ev |-> "formData"]) EXCEPT !.pc = "awaitFormData"]
        ELSE [Log(g, [ev |-> "json"]) EXCEPT !.pc = "awaitJson"]

\* from the query string to the await of the body, or through validation when
\* the method carries no body
Extraction(f) ==
    LET g == [f EXCEPT !.query = fromEntries(searchParams(f.request.url)), !.body = EmptyObject]
    IN  IF g.request.method # "GET" /\ g.request.method # "DELETE"
        THEN LET header == headers_get(g.request.headers, "contentType")
                 contentType == IF header = "null" THEN "" ELSE header
             IN  IF \/ includes(contentType, "multipart/form-data")
                    \/ includes(contentType, "application/x-www-form-urlencoded")
                 THEN [Log(g, [ev |-> "formData"]) EXCEPT !.pc = "awaitFormData"]
                 ELSE [Log(g, [ev |-> "json"]) EXCEPT !.pc = "awaitJson"]
        ELSE Validation(g)

\* the route is called: up to the await of context.params, or on when the
\* context carries none
Invoke(r, request, context) ==
    /\ route # Undefined
    /\ inv[r].pc = "idle"
    /\ LET f == [IdleFrame EXCEPT !.request = request, !.context = context]
       IN  inv' = [inv EXCEPT ![r] =
                     IF context.params # Undefined
                     THEN [f EXCEPT !.pc = "awaitParams"]
                     ELSE Extraction([f EXCEPT !.params = EmptyObject])]
    /\ UNCHANGED <<builder, route, store>>

\* context.params resolves
ResumeParams(r) ==
    /\ inv[r].pc = "awaitParams"
    /\ inv' = [inv EXCEPT ![r] = Extraction([inv[r] EXCEPT !.params = inv[r].context.params])]
    /\ UNCHANGED <<builder, route, store>>

\* ResumeBody catching the parser's error: the body stays {} and the pipeline
\* goes on
ResumeBody_SwallowsFailure(r) ==
    /\ inv[r].pc \in {"awaitFormData", "awaitJson"}
    /\ LET f == inv[r]
           formData == request_formData(f.request)
           json == request_json(f.request)
       IN  inv' = [inv EXCEPT ![r] =
                     IF f.pc = "awaitFormData"
                     THEN IF formData.ok
                          THEN Validation([f EXCEPT !.body = fromEntries(formData.entries)])
                          ELSE Validation(Log(f, [ev |-> "bodyThrow", error |-> formData.error]))
                     ELSE IF json.ok
                          THEN Validation([f EXCEPT !.body = json.value])
                          ELSE Validation(Log(f, [ev |-> "bodyThrow", error |-> json.error]))]
    /\ UNCHANGED <<builder, route, store>>

\* request.formData() or request.json() settles
ResumeBody(r) ==
    /\ inv[r].pc \in {"awaitFormData", "awaitJson"}
    /\ LET f == inv[r]
           formData == request_formData(f.request)
           json == request_json(f.request)
       IN  inv' = [inv EXCEPT ![r] =
                     IF f.pc = "awaitFormData"
                     THEN IF formData.ok
                          THEN Validation([f EXCEPT !.body = fromEntries(formData.entries)])
                          ELSE Throw(Log(f, [ev |-> "bodyThrow", error |-> formData.error]), formData.error)
                     ELSE IF json.ok
                          THEN Validation([f EXCEPT !.body = json.value])
                          ELSE Throw(Log(f, [ev |-> "bodyThrow", error |-> json.error]), json.error)]
    /\ UNCHANGED <<builder, route, store>>

\* MiddlewareResolves with the spread's operands exchanged: on a collision the
\* earlier fragment's value is kept
MiddlewareResolves_FirstWins(r) ==
    /\ inv[r].pc = "awaitMiddleware"
    /\ LET result == MiddlewareResult(route.this.middlewares[inv[r].i])
           f == Log(inv[r], [ev |-> "middlewareResult", i |-> inv[r].i, result |-> result])
       IN  inv' = [inv EXCEPT ![r] =
                     MiddlewareLoop([f EXCEPT !.middlewareContext = Spread(result, f.middlewareContext),
                                              !.i = f.i + 1])]
    /\ UNCHANGED <<builder, route, store>>

\* MiddlewareResolves with middlewareContext declared outside the closure: one
\* variable, which every invocation that has reached the loop reads and writes
MiddlewareResolves_SharedContext(r) ==
    /\ inv[r].pc = "awaitMiddleware"
    /\ LET result == MiddlewareResult(route.this.middlewares[inv[r].i])
           f == Log(inv[r], [ev |-> "middlewareResult", i |-> inv[r].i, result |-> result])
           merged == Spread(f.middlewareContext, result)
       IN  inv' = [q \in DOMAIN inv |->
                     IF q = r
                     THEN MiddlewareLoop([f EXCEPT !.middlewareContext = merged, !.i = f.i + 1])
                     ELSE IF inv[q].middlewareContext # Undefined
                     THEN [inv[q] EXCEPT !.middlewareContext = merged]
                     ELSE inv[q]]
    /\ UNCHANGED <<builder, route, store>>

\* the awaited middleware resolves
MiddlewareResolves(r) ==
    /\ inv[r].pc = "awaitMiddleware"
    /\ LET result == MiddlewareResult(route.this.middlewares[inv[r].i])
           f == Log(inv[r], [ev |-> "middlewareResult", i |-> inv[r].i, result |-> result])
       IN  inv' = [inv EXCEPT ![r] =
                     MiddlewareLoop([f EXCEPT !.middlewareContext = Spread(f.middlewareContext, result),
                                              !.i = f.i + 1])]
    /\ UNCHANGED <<builder, route, store>>

\* MiddlewareThrows with the throw caught inside the loop: the middleware's
\* fragment is skipped and the loop goes on
MiddlewareThrows_Continues(r, error) ==
    /\ inv[r].pc = "awaitMiddleware"
    /\ LET f == Log(inv[r], [ev |-> "middlewareThrow", i |-> inv[r].i, error |-> error])
       IN  inv' = [inv EXCEPT ![r] = MiddlewareLoop([f EXCEPT !.i = f.i + 1])]
    /\ UNCHANGED <<builder, route, store>>

\* the awaited middleware throws
MiddlewareThrows(r, error) ==
    /\ inv[r].pc = "awaitMiddleware"
    /\ inv' = [inv EXCEPT ![r] =
                 Throw(Log(inv[r], [ev |-> "middlewareThrow", i |-> inv[r].i, error |-> error]), error)]
    /\ UNCHANGED <<builder, route, store>>

\* the context argument the awaited handler was called with
HandlerContext(f) == IF f.pc = "awaitHandler" THEN f.trace[Len(f.trace)].context ELSE EmptyObject

\* HandlerResolves without the instanceof test: every result is serialised into
\* a new 200 response
HandlerResolves_AlwaysWraps(r) ==
    /\ inv[r].pc = "awaitHandler"
    /\ \E result \in HandlerResults(HandlerContext(inv[r])) :
          LET f == Log(inv[r], [ev |-> "handlerResult", result |-> result])
          IN  inv' = [inv EXCEPT ![r] =
                        IF ~CanStringify(result)
                        THEN LET error == Error("TypeError", RawText("Do not know how to serialize a BigInt"))
                             IN  Throw(Log(f, [ev |-> "stringifyThrow", error |-> error]), error)
                        ELSE Return(f, Response(JSON_stringify(result),
                                                [status |-> 200, headers |-> [ContentType |-> "application/json"]]))]
    /\ UNCHANGED <<builder, route, store>>

\* the awaited handler resolves
HandlerResolves(r) ==
    /\ inv[r].pc = "awaitHandler"
    /\ \E result \in HandlerResults(HandlerContext(inv[r])) :
          LET f == Log(inv[r], [ev |-> "handlerResult", result |-> result])
          IN  inv' = [inv EXCEPT ![r] =
                        IF IsResponse(result)
                        THEN Return(f, result)
                        ELSE IF ~CanStringify(result)
                        THEN LET error == Error("TypeError", RawText("Do not know how to serialize a BigInt"))
                             IN  Throw(Log(f, [ev |-> "stringifyThrow", error |-> error]), error)
                        ELSE Return(f, Response(JSON_stringify(result),
                                                [status |-> 200, headers |-> [ContentType |-> "application/json"]]))]
    /\ UNCHANGED <<builder, route, store>>

\* HandlerThrows with one retry: the handler is called a second time before the
\* error is let through to the catch clause
HandlerThrows_Retries(r, error) ==
    /\ inv[r].pc = "awaitHandler"
    /\ LET f == Log(inv[r], [ev |-> "handlerThrow", error |-> error])
       IN  inv' = [inv EXCEPT ![r] =
                     IF Len(SelectSeq(f.trace, LAMBDA e : e.ev = "handler")) < 2
                     THEN CallHandler(f)
                     ELSE Throw(f, error)]
    /\ UNCHANGED <<builder, route, store>>

\* the awaited handler throws
HandlerThrows(r, error) ==
    /\ inv[r].pc = "awaitHandler"
    /\ inv' = [inv EXCEPT ![r] =
                 Throw(Log(inv[r], [ev |-> "handlerThrow", error |-> error]), error)]
    /\ UNCHANGED <<builder, route, store>>

\* the promise of the closure has settled: the closure's frame is gone, and the
\* route can be invoked again
Discard(r) ==
    /\ inv[r].pc \in {"done", "rejected"}
    /\ inv' = [inv EXCEPT ![r] = IdleFrame]
    /\ UNCHANGED <<builder, route, store>>

(***************************************************************************)
(* The specification.                                                      *)
(***************************************************************************)
\* createZodRoute(): a builder with no schema and no middleware, with or
\* without an error handler; no route yet, no invocation
Init ==
    /\ builder \in {RouteHandlerBuilder([handleServerError |-> h]) : h \in ServerErrorHandlers}
    /\ route = Undefined
    /\ inv = [r \in Invocations |-> IdleFrame]
    /\ builders = <<>>
    /\ routes = <<>>
    /\ madeBy = <<>>

Next ==
    \/ \E schema \in ParamsSchemas : params(schema)
    \/ \E schema \in QuerySchemas : query(schema)
    \/ \E schema \in BodySchemas : body(schema)
    \/ \E middleware \in MiddlewareFns : use(middleware)
    \/ \E userFn \in UserHandlers : handler(userFn)
    \/ \E r \in Invocations, request \in Requests, context \in [params : ContextParams] :
          Invoke(r, request, context)
    \/ \E r \in Invocations : ResumeParams(r)
    \/ \E r \in Invocations : ResumeBody(r)
    \/ \E r \in Invocations : MiddlewareResolves(r)
    \/ \E r \in Invocations, error \in UserErrors : MiddlewareThrows(r, error)
    \/ \E r \in Invocations : HandlerResolves(r)
    \/ \E r \in Invocations, error \in UserErrors : HandlerThrows(r, error)
    \/ \E r \in Invocations : Discard(r)

Spec == Init /\ [][Next]_vars

(***************************************************************************)
(* The builders as objects.  A program keeps the builders it creates: it   *)
(* calls the chaining methods on any of them, in any order, and builds     *)
(* routes from any of them.  builders[k] is the k-th object created, a     *)
(* route's this is the object handler() was called on, and madeBy[k] is    *)
(* the call that returned builders[k].                                     *)
(***************************************************************************)
\* a schema is an object of one type: any of them fits any slot
Schemas == ParamsSchemas \cup QuerySchemas \cup BodySchemas

\* params_on with the spread of the config after the new schema: the old
\* config's entry for the slot wins
params_on_KeepsFirst(this, schema) ==
    /\ Len(builders) < MaxBuilders
    /\ builders' = Append(builders,
                          RouteHandlerBuilder(
                             Spread(builders[this],
                                    [config |-> Spread([paramsSchema |-> schema], builders[this].config)])))
    /\ madeBy' = Append(madeBy, [method |-> "params", this |-> this, arg |-> schema])
    /\ UNCHANGED <<builder, route, inv, routes>>

\* params(schema), called on the object this
params_on(this, schema) ==
    /\ Len(builders) < MaxBuilders
    /\ builders' = Append(builders,
                          RouteHandlerBuilder(
                             Spread(builders[this],
                                    [config |-> Spread(builders[this].config, [paramsSchema |-> schema])])))
    /\ madeBy' = Append(madeBy, [method |-> "params", this |-> this, arg |-> schema])
    /\ UNCHANGED <<builder, route, inv, routes>>

\* query_on without the spread of this: the new builder is given the config only
query_on_DropsRest(this, schema) ==
    /\ Len(builders) < MaxBuilders
    /\ builders' = Append(builders,
                          RouteHandlerBuilder(
                             [config |-> Spread(builders[this].config, [querySchema |-> schema])]))
    /\ madeBy' = Append(madeBy, [method |-> "query", this |-> this, arg |-> schema])
    /\ UNCHANGED <<builder, route, inv, routes>>

\* query(schema), called on the object this
query_on(this, schema) ==
    /\ Len(builders) < MaxBuilders
    /\ builders' = Append(builders,
                          RouteHandlerBuilder(
                             Spread(builders[this],
                                    [config |-> Spread(builders[this].config, [querySchema |-> schema])])))
    /\ madeBy' = Append(madeBy, [method |-> "query", this |-> this, arg |-> schema])
    /\ UNCHANGED <<builder, route, inv, routes>>

\* body(schema), called on the object this
body_on(this, schema) ==
    /\ Len(builders) < MaxBuilders
    /\ builders' = Append(builders,
                          RouteHandlerBuilder(
                             Spread(builders[this],
                                    [config |-> Spread(builders[this].config, [bodySchema |-> schema])])))
    /\ madeBy' = Append(madeBy, [method |-> "body", this |-> this, arg |-> schema])
    /\ UNCHANGED <<builder, route, inv, routes>>

\* use_on pushing the middleware onto this's own list, which the new builder
\* then shares
use_on_PushesInPlace(this, middleware) ==
    /\ Len(builders) < MaxBuilders
    /\ LET pushed == [builders EXCEPT ![this].middlewares = Append(@, middleware)]
       IN  builders' = Append(pushed, RouteHandlerBuilder(pushed[this]))
    /\ madeBy' = Append(madeBy, [method |-> "use", this |-> this, arg |-> middleware])
    /\ UNCHANGED <<builder, route, inv, routes>>

\* use_on without the spread of this: the new builder keeps the middlewares and
\* loses the schemas and the error handler set before the call
use_on_ResetsConfig(this, middleware) ==
    /\ Len(builders) < MaxBuilders
    /\ builders' = Append(builders,
                          RouteHandlerBuilder(
                             [middlewares |-> Append(builders[this].middlewares, middleware)]))
    /\ madeBy' = Append(madeBy, [method |-> "use", this |-> this, arg |-> middleware])
    /\ UNCHANGED <<builder, route, inv, routes>>

\* use(middleware), called on the object this
use_on(this, middleware) ==
    /\ Len(builders) < MaxBuilders
    /\ builders' = Append(builders,
                          RouteHandlerBuilder(
                             Spread(builders[this],
                                    [middlewares |-> Append(builders[this].middlewares, middleware)])))
    /\ madeBy' = Append(madeBy, [method |-> "use", this |-> this, arg |-> middleware])
    /\ UNCHANGED <<builder, route, inv, routes>>

\* handler(userFn), called on the object this: the closure refers to this, and
\* reads its config, middlewares and handleServerError when it is invoked
handler_on(this, userFn) ==
    /\ Len(routes) < MaxRoutes
    /\ routes' = Append(routes, [this |-> this, handler |-> userFn])
    /\ UNCHANGED <<builder, route, inv, builders, madeBy>>

\* createZodRoute(options): the first builder
BuilderInit ==
    /\ builder = RouteHandlerBuilder(EmptyObject)
    /\ route = Undefined
    /\ inv = [r \in Invocations |-> IdleFrame]
    /\ \E h \in ServerErrorHandlers :
          /\ builders = <<RouteHandlerBuilder([handleServerError |-> h])>>
          /\ madeBy = <<[method |-> "createZodRoute", this |-> 0, arg |-> h]>>
    /\ routes = <<>>

BuilderNext ==
    \/ \E this \in 1..Len(builders), schema \in Schemas : params_on(this, schema)
    \/ \E this \in 1..Len(builders), schema \in Schemas : query_on(this, schema)
    \/ \E this \in 1..Len(builders), schema \in Schemas : body_on(this, schema)
    \/ \E this \in 1..Len(builders), middleware \in MiddlewareFns : use_on(this, middleware)
    \/ \E this \in 1..Len(builders), userFn \in UserHandlers : handler_on(this, userFn)

BuilderSpec == BuilderInit /\ [][BuilderNext]_vars

(***************************************************************************)
(* Two invocations of one route in flight at once.  Each has its own frame *)
(* of the closure; the scheduler resumes either of them at any of its      *)
(* awaits.                                                                 *)
(***************************************************************************)
ConcurrentInvocations == {"r1", "r2"}

\* the requests the two invocations are made with: a POST of JSON with a query
\* string, a GET, and a POST whose payload is not the JSON it declares
ConcurrentRequests ==
    {[method |-> "POST", url |-> "http://localhost/?search=test&page=2",
      headers |-> [contentType |-> "application/json"], payload |-> "{field:test-field,extra:x}"],
     [method |-> "GET", url |-> "http://localhost/",
      headers |-> EmptyObject, payload |-> "{field:123}"],
     [method |-> "POST", url |-> "http://localhost/",
      headers |-> [contentType |-> "application/json"], payload |-> "field=test-field"]}

ConcurrentContexts == {[params |-> [id |-> UUID, slug |-> "a"]], [params |-> [id |-> "invalid-uuid"]]}

\* what user code throws in these runs
ConcurrentErrors == {Error("CustomError", RawText("Test error"))}

ConcurrentInit ==
    /\ builder = RouteHandlerBuilder([handleServerError |-> "handleServerError"])
    /\ route = Undefined
    /\ inv = [r \in ConcurrentInvocations |-> IdleFrame]
    /\ builders = <<>>
    /\ routes = <<>>
    /\ madeBy = <<>>

ConcurrentNext ==
    \/ \E schema \in ParamsSchemas : params(schema)
    \/ \E schema \in BodySchemas : body(schema)
    \/ \E middleware \in MiddlewareFns : use(middleware)
    \/ \E userFn \in UserHandlers : handler(userFn)
    \/ \E r \in ConcurrentInvocations, request \in ConcurrentRequests, context \in ConcurrentContexts :
          Invoke(r, request, context)
    \/ \E r \in ConcurrentInvocations : ResumeParams(r)
    \/ \E r \in ConcurrentInvocations : ResumeBody(r)
    \/ \E r \in ConcurrentInvocations : MiddlewareResolves(r)
    \/ \E r \in ConcurrentInvocations, error \in ConcurrentErrors : MiddlewareThrows(r, error)
    \/ \E r \in ConcurrentInvocations : HandlerResolves(r)
    \/ \E r \in ConcurrentInvocations, error \in ConcurrentErrors : HandlerThrows(r, error)
    \/ \E r \in ConcurrentInvocations : Discard(r)

ConcurrentSpec == ConcurrentInit /\ [][ConcurrentNext]_vars

(***************************************************************************)
(* Chains of calls and the routes they end in.  A program builds builders  *)
(* by chains of params, query and use calls in any interleaving, ends a     *)
(* chain with handler(), and the route is then invoked: its closure reads   *)
(* the builder that handler() was called on.                               *)
(***************************************************************************)
\* routes[k] is the route that is invoked: route is its closure's environment
Serve(k) ==
    /\ route = Undefined
    /\ route' = [this |-> builders[routes[k].this], handler |-> routes[k].handler]
    /\ UNCHANGED <<builder, inv, store>>

ChainInit ==
    /\ builder = RouteHandlerBuilder(EmptyObject)
    /\ route = Undefined
    /\ inv = [r \in Invocations |-> IdleFrame]
    /\ builders = <<RouteHandlerBuilder(EmptyObject)>>
    /\ madeBy = <<[method |-> "createZodRoute", this |-> 0, arg |-> "undefined"]>>
    /\ routes = <<>>

ChainNext ==
    \/ \E this \in 1..Len(builders), schema \in ParamsSchemas : route = Undefined /\ params_on(this, schema)
    \/ \E this \in 1..Len(builders), schema \in QuerySchemas : route = Undefined /\ query_on(this, schema)
    \/ \E this \in 1..Len(builders), middleware \in MiddlewareFns : route = Undefined /\ use_on(this, middleware)
    \/ \E this \in 1..Len(builders), userFn \in UserHandlers : route = Undefined /\ handler_on(this, userFn)
    \/ \E k \in 1..Len(routes) : Serve(k)
    \/ \E r \in Invocations, request \in ConcurrentRequests, context \in ConcurrentContexts :
          Invoke(r, request, context)
    \/ \E r \in Invocations : ResumeParams(r)
    \/ \E r \in Invocations : ResumeBody(r)
    \/ \E r \in Invocations : MiddlewareResolves(r)
    \/ \E r \in Invocations, error \in ConcurrentErrors : MiddlewareThrows(r, error)
    \/ \E r \in Invocations : HandlerResolves(r)
    \/ \E r \in Invocations, error \in ConcurrentErrors : HandlerThrows(r, error)
    \/ \E r \in Invocations : Discard(r)

ChainSpec == ChainInit /\ [][ChainNext]_vars

(***************************************************************************)
(* Routes with a body schema that accepts the empty object.  The builder   *)
(* is given a params schema and either body schema, and the route is       *)
(* invoked with every request.                                             *)
(***************************************************************************)
BodyNext ==
    \/ \E schema \in ParamsSchemas : params(schema)
    \/ \E schema \in BodySchemas \cup DefaultSchemas : body(schema)
    \/ \E userFn \in UserHandlers : handler(userFn)
    \/ \E r \in Invocations, request \in Requests, context \in [params : ContextParams] :
          Invoke(r, request, context)
    \/ \E r \in Invocations : ResumeParams(r)
    \/ \E r \in Invocations : ResumeBody(r)
    \/ \E r \in Invocations : HandlerResolves(r)
    \/ \E r \in Invocations, error \in UserErrors : HandlerThrows(r, error)
    \/ \E r \in Invocations : Discard(r)

BodySpec == Init /\ [][BodyNext]_vars

(***************************************************************************)
(* What a request is, independently of the run: the value each slot is     *)
(* extracted to and what the configured schema says of it.                 *)
(***************************************************************************)
Done(f) == f.pc = "done"

Config == route.this.config

Slots == <<"params", "query", "body">>

SlotSchema(slot) ==
    CASE slot = "params" -> Config.paramsSchema
      [] slot = "query" -> Config.querySchema
      [] slot = "body" -> Config.bodySchema

SlotMessage(slot) ==
    CASE slot = "params" -> "Invalid params"
      [] slot = "query" -> "Invalid query"
      [] slot = "body" -> "Invalid body"

\* the method carries a body that the pipeline reads
ReadsBody(request) == request.method \notin {"GET", "DELETE"}

\* the content-type selects the form parser
IsForm(request) ==
    /\ "contentType" \in DOMAIN request.headers
    /\ request.headers.contentType \in {"application/x-www-form-urlencoded", "multipart/form-data; boundary=x"}

\* the body can be extracted: none is read, or the payload parses
Parseable(request) ==
    \/ ~ReadsBody(request)
    \/ IF IsForm(request) THEN request_formData(request).ok ELSE request_json(request).ok

\* the extracted value of a slot (of the body: when it is Parseable)
Raw(f, slot) ==
    CASE slot = "params" -> IF f.context.params = Undefined THEN EmptyObject ELSE f.context.params
      [] slot = "query" -> fromEntries(searchParams(f.request.url))
      [] slot = "body" ->
            IF ~ReadsBody(f.request) THEN EmptyObject
            ELSE IF IsForm(f.request) THEN fromEntries(request_formData(f.request).entries)
            ELSE request_json(f.request).value

Configured(slot) == SlotSchema(slot) # "undefined"

\* the slot has a schema and the schema rejects the slot's extracted value
Rejected(f, slot) == Configured(slot) /\ ~safeParse(SlotSchema(slot), Raw(f, slot)).success

\* the slot has no schema, or its schema accepts the extracted value
Passes(f, slot) == ~Rejected(f, slot)

\* the value of the slot that validation leaves: the schema's output, or the
\* extracted value when there is no schema
Validated(f, slot) ==
    IF Configured(slot) THEN safeParse(SlotSchema(slot), Raw(f, slot)).data ELSE Raw(f, slot)

\* the message member of a JSON response body ("" when it has none)
Message(response) ==
    IF "json" \in DOMAIN response.body /\ "message" \in DOMAIN response.body.json
    THEN response.body.json.message
    ELSE ""

\* the response is the validation error of the slot
IsInvalid(response, slot) == response.status = 400 /\ Message(response) = SlotMessage(slot)

\* the events of a kind in a trace, in order
Events(f, kind) == SelectSeq(f.trace, LAMBDA e : e.ev = kind)

(***************************************************************************)
(* C1.  As claimed: every request whose params value the params schema     *)
(* rejects is answered 400 "Invalid params", whatever the query, the body, *)
(* the other schemas and the method.  It fails: the body is read before    *)
(* any schema runs, and a body that does not parse ends the request first. *)
(***************************************************************************)
C1_Claimed ==
    \A r \in Invocations :
        Done(inv[r]) /\ Rejected(inv[r], "params") => IsInvalid(inv[r].response, "params")

\* C1, amended: every request whose body can be extracted (GET, DELETE, or a
\* payload that parses) and whose params value the params schema rejects is
\* answered 400 "Invalid params", whatever the query, the body's validity, the
\* other schemas and the method.
C1_InvalidParamsFirst ==
    \A r \in Invocations :
        Done(inv[r]) /\ Parseable(inv[r].request) /\ Rejected(inv[r], "params")
            => IsInvalid(inv[r].response, "params")

\* C1's case: a POST whose params, query and body are all rejected, answered
\* "Invalid params"
C1_Witness ==
    \E r \in Invocations :
        /\ Done(inv[r])
        /\ inv[r].request.method = "POST"
        /\ Parseable(inv[r].request)
        /\ \A k \in 1..3 : Rejected(inv[r], Slots[k])
        /\ IsInvalid(inv[r].response, "params")

(***************************************************************************)
(* C2.  As claimed: every request whose params pass and whose query the    *)
(* query schema rejects is answered 400 "Invalid query", whatever the      *)
(* body.  It fails on a body that does not parse, as C1 does.              *)
(***************************************************************************)
C2_Claimed ==
    \A r \in Invocations :
        Done(inv[r]) /\ Passes(inv[r], "params") /\ Rejected(inv[r], "query")
            => IsInvalid(inv[r].response, "query")

\* C2, amended: every request whose body can be extracted, whose params pass
\* (or have no schema) and whose query the query schema rejects is answered 400
\* "Invalid query", whether or not the body would pass the body schema.
C2_InvalidQuerySecond ==
    \A r \in Invocations :
        Done(inv[r]) /\ Parseable(inv[r].request)
                     /\ Passes(inv[r], "params") /\ Rejected(inv[r], "query")
            => IsInvalid(inv[r].response, "query")

\* C2's case: the params schema accepted, the query and the body are both
\* rejected, and the answer is "Invalid query"
C2_Witness ==
    \E r \in Invocations :
        /\ Done(inv[r])
        /\ Configured("params") /\ Passes(inv[r], "params")
        /\ Parseable(inv[r].request)
        /\ Rejected(inv[r], "query") /\ Rejected(inv[r], "body")
        /\ IsInvalid(inv[r].response, "query")

\* the errors thrown by body extraction, by a middleware or by the handler
Thrown(f) == SelectSeq(f.trace, LAMBDA e : e.ev \in {"bodyThrow", "middlewareThrow", "handlerThrow"})

\* the i-th event of the trace is a schema rejecting
IsRejection(f, k) == f.trace[k].ev = "safeParse" /\ ~f.trace[k].success

\* the default response to an error that is not a validation error
InternalServerError(response) ==
    /\ response.status = 500
    /\ response.body = JSON_stringify([message |-> "Internal server error"])

(***************************************************************************)
(* C3.  As claimed: the response to a validation error (the 400 of the     *)
(* catch clause) names the slot whose schema rejected: "Invalid <slot>" is *)
(* answered only when that slot's schema rejected the extracted value      *)
(* after the slots before it passed, and a slot's rejection is reported    *)
(* under no other slot's name.  The code answers it also when a middleware *)
(* or the handler throws an InternalRouteHandlerError (see C8).            *)
(***************************************************************************)
C3_Claimed ==
    \A r \in Invocations :
        /\ Done(inv[r]) /\ inv[r].error # Undefined /\ IsInternalRouteHandlerError(inv[r].error)
           => \E k \in 1..3 :
                 /\ IsInvalid(inv[r].response, Slots[k])
                 /\ Parseable(inv[r].request)
                 /\ Rejected(inv[r], Slots[k])
                 /\ \A j \in 1..(k - 1) : Passes(inv[r], Slots[j])
        /\ \A k \in 1..Len(inv[r].trace) :
              IsRejection(inv[r], k) =>
                 \A s \in 1..3 :
                    IsInvalid(inv[r].response, Slots[s]) <=> Slots[s] = inv[r].trace[k].slot

(***************************************************************************)
(* C4.  When a slot's schema rejects, the pipeline aborts at once: the     *)
(* request is answered, and no later schema, no middleware and no handler  *)
(* is called for it.                                                       *)
(***************************************************************************)
C4_RejectionAborts ==
    \A r \in Invocations :
        \A k \in 1..Len(inv[r].trace) :
            IsRejection(inv[r], k) =>
                /\ Done(inv[r])
                /\ \A j \in (k + 1)..Len(inv[r].trace) :
                      inv[r].trace[j].ev \notin {"safeParse", "middleware", "handler"}

\* C4's case: the params schema rejected on a route that has a query schema, a
\* body schema and a middleware, none of which ran
C4_Witness ==
    \E r \in Invocations :
        /\ Done(inv[r])
        /\ Configured("query") /\ Configured("body")
        /\ Len(route.this.middlewares) > 0
        /\ Len(inv[r].trace) > 0
        /\ IsRejection(inv[r], Len(inv[r].trace))
        /\ inv[r].trace[Len(inv[r].trace)].slot = "params"

(***************************************************************************)
(* C5.  As claimed: whenever every configured schema accepts its slot's    *)
(* value, the handler is called with the schemas' outputs and the status   *)
(* is the one its result implies.  It fails when the body does not parse,  *)
(* when a middleware throws, when the handler throws and when its result   *)
(* cannot be serialised.                                                   *)
(***************************************************************************)
AllPass(f) ==
    /\ Passes(f, "params")
    /\ Passes(f, "query")
    /\ Configured("body") => Parseable(f.request) /\ Passes(f, "body")

\* the handler was called once, with the validated value of each slot
HandlerGotValidated(f) ==
    LET calls == Events(f, "handler")
    IN  /\ Len(calls) = 1
        /\ calls[1].context.params = Validated(f, "params")
        /\ calls[1].context.query = Validated(f, "query")
        /\ calls[1].context.body = Validated(f, "body")

\* the status is 200 for a plain result and the result's own for a Response
StatusFromHandler(f) ==
    LET results == Events(f, "handlerResult")
    IN  /\ Len(results) = 1
        /\ f.response.status = IF IsResponse(results[1].result) THEN results[1].result.status ELSE 200

C5_Claimed ==
    \A r \in Invocations :
        Done(inv[r]) /\ AllPass(inv[r]) => HandlerGotValidated(inv[r]) /\ StatusFromHandler(inv[r])

\* C5, amended: for every request whose body can be extracted, where every
\* configured schema accepts its slot's value and no middleware throws, the
\* handler is called with params, query and body equal to the schemas' parsed
\* outputs (the extracted value for a slot without schema); and when the handler
\* returns, rather than throws, a Response or a value that JSON.stringify
\* serialises, the status is 200 for the plain value and the handler's own for
\* the Response.
C5_ValidatedReachHandler ==
    \A r \in Invocations :
        /\ Done(inv[r])
        /\ Parseable(inv[r].request)
        /\ AllPass(inv[r])
        /\ Events(inv[r], "middlewareThrow") = <<>>
        => /\ HandlerGotValidated(inv[r])
           /\ \A k \in 1..Len(inv[r].trace) :
                 /\ inv[r].trace[k].ev = "handlerResult"
                 /\ IsResponse(inv[r].trace[k].result) \/ CanStringify(inv[r].trace[k].result)
                 => StatusFromHandler(inv[r])

\* C5's case: a POST through three schemas, the body schema's output differing
\* from the parsed body, answered from the handler's result
C5_Witness ==
    \E r \in Invocations :
        /\ Done(inv[r])
        /\ inv[r].request.method = "POST"
        /\ \A k \in 1..3 : Configured(Slots[k])
        /\ Parseable(inv[r].request)
        /\ AllPass(inv[r])
        /\ Validated(inv[r], "body") # Raw(inv[r], "body")
        /\ Len(Events(inv[r], "handlerResult")) = 1
        /\ inv[r].response.status = 200

(***************************************************************************)
(* C6.  A schema's rejection is answered 400 with the body                 *)
(* {message: "Invalid <slot>", errors: <the schema's issues>}, with or     *)
(* without a custom error handler, and the custom error handler is not     *)
(* called for it.                                                          *)
(***************************************************************************)
C6_ValidationErrorIs400 ==
    \A r \in Invocations :
        \A k \in 1..Len(inv[r].trace) :
            IsRejection(inv[r], k) =>
                LET slot == inv[r].trace[k].slot
                    issues == safeParse(SlotSchema(slot), Raw(inv[r], slot)).error.issues
                IN  /\ Done(inv[r])
                    /\ inv[r].response.status = 400
                    /\ inv[r].response.body = [json |-> [message |-> SlotMessage(slot), errors |-> issues]]
                    /\ Events(inv[r], "handleServerError") = <<>>

\* C6's case: the body schema rejected on a route that has a custom error handler
C6_Witness ==
    \E r \in Invocations :
        /\ Done(inv[r])
        /\ route.this.handleServerError # "undefined"
        /\ Len(inv[r].trace) > 0
        /\ IsRejection(inv[r], Len(inv[r].trace))
        /\ inv[r].trace[Len(inv[r].trace)].slot = "body"
        /\ inv[r].response.status = 400

(***************************************************************************)
(* C7.  As claimed: with a custom error handler configured, any error      *)
(* thrown by body extraction, by a middleware or by the handler is passed  *)
(* to it, and the route returns the response it produces.  The code does   *)
(* not pass it an InternalRouteHandlerError thrown by user code (see C8).  *)
(***************************************************************************)
C7_Claimed ==
    \A r \in Invocations :
        /\ Done(inv[r])
        /\ route.this.handleServerError # "undefined"
        /\ Thrown(inv[r]) # <<>>
        => LET calls == Events(inv[r], "handleServerError")
           IN  /\ Len(calls) = 1
               /\ calls[1].error = Thrown(inv[r])[1].error
               /\ inv[r].response = calls[1].returned

(***************************************************************************)
(* C8.  As claimed: an exception of a middleware aborts the pipeline and   *)
(* is handled as a generic error (the custom handler if configured, else   *)
(* 500), never as a validation error, whatever the middleware throws.  The *)
(* code answers 400 with the error's message when the middleware throws an *)
(* InternalRouteHandlerError, the exported class the catch clause tests.   *)
(***************************************************************************)
C8_Claimed ==
    \A r \in Invocations :
        \A k \in 1..Len(inv[r].trace) :
            inv[r].trace[k].ev = "middlewareThrow" /\ Done(inv[r]) =>
                /\ \A j \in (k + 1)..Len(inv[r].trace) :
                      inv[r].trace[j].ev \notin {"middleware", "handler"}
                /\ \A s \in 1..3 : ~IsInvalid(inv[r].response, Slots[s])
                /\ IF route.this.handleServerError # "undefined"
                   THEN LET call == CallServerErrorHandler(route.this.handleServerError, inv[r].trace[k].error)
                        IN  call.ok /\ inv[r].response = call.value
                   ELSE InternalServerError(inv[r].response)

(***************************************************************************)
(* C9.  As claimed: with no custom error handler, every failure that is    *)
(* not a schema's rejection is answered 500 {"message": "Internal server   *)
(* error"}, so that the response does not depend on the error thrown.  The *)
(* code answers 400 with the error's own message when user code throws an  *)
(* InternalRouteHandlerError (see C8).                                     *)
(***************************************************************************)
C9_Claimed ==
    \A r \in Invocations :
        /\ Done(inv[r])
        /\ route.this.handleServerError = "undefined"
        /\ Thrown(inv[r]) # <<>>
        => InternalServerError(inv[r].response)

(***************************************************************************)
(* C10.  Middleware run one after the other in registration order: the     *)
(* N-th call is of the N-th registered middleware, is made after           *)
(* middleware 1..N-1 were each called and resolved, in that order, and     *)
(* receives exactly the shallow merge of the fragments they returned.      *)
(***************************************************************************)
\* the shallow merge of a sequence of fragments: each key with the value of
\* the last fragment that has it
MergeOf(fragments) ==
    LET keys == UNION {DOMAIN fragments[j] : j \in 1..Len(fragments)}
        last(key) == CHOOSE j \in 1..Len(fragments) :
                        /\ key \in DOMAIN fragments[j]
                        /\ \A m \in (j + 1)..Len(fragments) : key \notin DOMAIN fragments[m]
    IN  [key \in keys |-> fragments[last(key)][key]]

C10_SequentialMiddleware ==
    \A r \in Invocations :
        \A k \in 1..Len(inv[r].trace) :
            inv[r].trace[k].ev = "middleware" =>
                LET n == inv[r].trace[k].i
                    before == SelectSeq(SubSeq(inv[r].trace, 1, k - 1),
                                        LAMBDA e : e.ev \in {"middleware", "middlewareResult", "middlewareThrow"})
                IN  /\ n \in 1..Len(route.this.middlewares)
                    /\ inv[r].trace[k].fn = route.this.middlewares[n]
                    /\ Len(before) = 2 * (n - 1)
                    /\ \A j \in 1..(n - 1) :
                          /\ before[2 * j - 1].ev = "middleware" /\ before[2 * j - 1].i = j
                          /\ before[2 * j].ev = "middlewareResult" /\ before[2 * j].i = j
                    /\ inv[r].trace[k].context = MergeOf([j \in 1..(n - 1) |-> before[2 * j].result])

\* C10's case: the second middleware is called with the first one's fragment
C10_Witness ==
    \E r \in Invocations :
        \E k \in 1..Len(inv[r].trace) :
            /\ inv[r].trace[k].ev = "middleware"
            /\ inv[r].trace[k].i = 2
            /\ inv[r].trace[k].fn # route.this.middlewares[1]
            /\ inv[r].trace[k].context = MiddlewareResult(route.this.middlewares[1])

(***************************************************************************)
(* C11.  The data object the handler is called with is the shallow merge,  *)
(* left to right, of the fragments of all the registered middleware in     *)
(* registration order, a later fragment's value winning on a collision     *)
(* ({x:1} then {x:2,y:3} gives {x:2,y:3}); with no middleware it is the    *)
(* empty object.                                                           *)
(***************************************************************************)
C11_DataIsMergeOfFragments ==
    \A r \in Invocations :
        \A k \in 1..Len(inv[r].trace) :
            inv[r].trace[k].ev = "handler" =>
                LET registered == route.this.middlewares
                    results == SelectSeq(SubSeq(inv[r].trace, 1, k - 1), LAMBDA e : e.ev = "middlewareResult")
                IN  /\ Len(results) = Len(registered)
                    /\ \A j \in 1..Len(results) :
                          results[j].i = j /\ results[j].result = MiddlewareResult(registered[j])
                    /\ inv[r].trace[k].context.data = MergeOf([j \in 1..Len(results) |-> results[j].result])
                    /\ registered = <<>> => inv[r].trace[k].context.data = EmptyObject

\* C11's case: {x:1} then {x:2,y:3} were merged, and the handler got {x:2,y:3}
C11_Witness ==
    \E r \in Invocations :
        /\ route # Undefined
        /\ route.this.middlewares = <<"middleware1", "middleware2">>
        /\ MiddlewareResult("middleware1") = [x |-> "1"]
        /\ \E k \in 1..Len(inv[r].trace) :
              /\ inv[r].trace[k].ev = "handler"
              /\ inv[r].trace[k].context.data = [x |-> "2", y |-> "3"]

(***************************************************************************)
(* C12.  On a GET or a DELETE the body is never read, whatever the         *)
(* content-type and the payload: neither formData() nor json() is called,  *)
(* no failure comes from the payload, the body is the empty object, and    *)
(* the pipeline goes on to validation, the middleware and the handler.     *)
(***************************************************************************)
C12_NoBodyParsingOnGetDelete ==
    \A r \in Invocations :
        LET f == inv[r]
        IN  f.pc \notin {"idle", "awaitParams"} /\ f.request.method \in {"GET", "DELETE"} =>
                /\ f.pc \notin {"awaitFormData", "awaitJson"}
                /\ \A k \in 1..Len(f.trace) : f.trace[k].ev \notin {"formData", "json", "bodyThrow"}
                /\ f.trace # <<>>
                /\ f.trace[1].ev \in {"safeParse", "middleware", "handler"}
                /\ ~Configured("body") => f.body = EmptyObject
                /\ \A k \in 1..Len(f.trace) :
                      f.trace[k].ev = "handler" /\ ~Configured("body") => f.trace[k].context.body = EmptyObject

\* C12's case: a DELETE that declares JSON and carries a payload that is not
\* JSON went through a middleware to the handler and was answered 200
C12_Witness ==
    \E r \in Invocations :
        /\ Done(inv[r])
        /\ inv[r].request.method = "DELETE"
        /\ headers_get(inv[r].request.headers, "contentType") = "application/json"
        /\ ~request_json(inv[r].request).ok
        /\ Events(inv[r], "middlewareResult") # <<>>
        /\ Events(inv[r], "handlerResult") # <<>>
        /\ inv[r].response.status = 200

\* the error the body's parser throws on a request that is not Parseable
ParseError(request) ==
    IF IsForm(request) THEN request_formData(request).error ELSE request_json(request).error

(***************************************************************************)
(* C13.  A request whose method is neither GET nor DELETE and whose body   *)
(* does not parse fails as an unclassified failure: the parser's error     *)
(* goes to the custom error handler when one is configured, whose response *)
(* is the route's, and is answered with the generic 500 otherwise; the     *)
(* response is never a 400 validation error, and no schema, no middleware  *)
(* and no handler is run for the request.                                  *)
(***************************************************************************)
C13_BodyParseFailureIsUnclassified ==
    \A r \in Invocations :
        LET f == inv[r]
        IN  f.pc \in {"done", "rejected"} /\ ~Parseable(f.request) =>
                /\ \A k \in 1..Len(f.trace) : f.trace[k].ev \notin {"safeParse", "middleware", "handler"}
                /\ Len(Events(f, "bodyThrow")) = 1
                /\ Events(f, "bodyThrow")[1].error = ParseError(f.request)
                /\ IF route.this.handleServerError # "undefined"
                   THEN LET call == CallServerErrorHandler(route.this.handleServerError, ParseError(f.request))
                        IN  /\ Len(Events(f, "handleServerError")) = 1
                            /\ Events(f, "handleServerError")[1].error = ParseError(f.request)
                            /\ Done(f) <=> call.ok
                            /\ Done(f) => f.response = call.value
                   ELSE Done(f) /\ InternalServerError(f.response)
                /\ Done(f) => \A s \in 1..3 : ~IsInvalid(f.response, Slots[s])

\* C13's case: a POST whose body does not parse, on a route with three schemas
\* (the params one rejecting), a middleware and the test suite's error handler,
\* answered by that handler
C13_Witness ==
    \E r \in Invocations :
        /\ Done(inv[r])
        /\ ~Parseable(inv[r].request)
        /\ \A k \in 1..3 : Configured(Slots[k])
        /\ Rejected(inv[r], "params")
        /\ Len(route.this.middlewares) > 0
        /\ route.this.handleServerError = "handleServerError"
        /\ inv[r].response = handleServerError(ParseError(inv[r].request))

\* the response that wraps a plain result
IsJsonResponseOf(response, result) ==
    /\ response.status = 200
    /\ response.headers = [ContentType |-> "application/json"]
    /\ response.body = JSON_stringify(result)

C15_BuildersAreImmutable ==
    [][/\ Len(builders') >= Len(builders)
       /\ \A k \in 1..Len(builders) : builders'[k] = builders[k]
       /\ madeBy' # madeBy => Len(builders') = Len(builders) + 1
       /\ Len(routes') >= Len(routes)
       /\ \A j \in 1..Len(routes) :
             /\ routes'[j] = routes[j]
             /\ builders'[routes'[j].this] = builders[routes[j].this]]_vars

\* C15's case: two builders forked from the first one by different calls, and a
\* route built from one of the forks
C15_Witness ==
    /\ Len(builders) = 3
    /\ madeBy[2].this = 1 /\ madeBy[3].this = 1
    /\ madeBy[2].method = "use" /\ madeBy[3].method = "params"
    /\ builders[1].middlewares = <<>>
    /\ builders[2] # builders[3]
    /\ routes # <<>> /\ routes[1].this = 2

(***************************************************************************)
(* C16.  params(schema), query(schema) and body(schema) change their own   *)
(* slot only: the builder returned has the other two schemas, the          *)
(* middleware list (same entries, same order) and the error handler of the *)
(* builder the call was made on; use(middleware) leaves the three schemas  *)
(* and the error handler as they were.                                     *)
(***************************************************************************)
C16_OnlyOwnSlotChanges ==
    \A k \in 2..Len(builders) :
        LET call == madeBy[k]
            prior == builders[call.this]
            made == builders[k]
        IN  /\ made.handleServerError = prior.handleServerError
            /\ call.method # "use" => made.middlewares = prior.middlewares
            /\ call.method # "params" => made.config.paramsSchema = prior.config.paramsSchema
            /\ call.method # "query" => made.config.querySchema = prior.config.querySchema
            /\ call.method # "body" => made.config.bodySchema = prior.config.bodySchema
            /\ call.method = "params" => made.config.paramsSchema = call.arg
            /\ call.method = "query" => made.config.querySchema = call.arg
            /\ call.method = "body" => made.config.bodySchema = call.arg

\* C16's case: query(schema) called on a builder that has a middleware and an
\* error handler
C16_Witness ==
    /\ Len(builders) = 3
    /\ madeBy[3].method = "query" /\ madeBy[3].this = 2
    /\ builders[2].middlewares # <<>>
    /\ builders[2].handleServerError # "undefined"
    /\ builders[3].config.querySchema # builders[2].config.querySchema

(***************************************************************************)
(* C17.  Along a chain of calls a slot's schema is the one given by the    *)
(* latest call to that slot, and the middleware list is the middleware     *)
(* registered along the chain, in the order of registration: each call of  *)
(* use appends at the end, and no middleware is ever removed.              *)
(***************************************************************************)
\* the calls that lead from the first builder to builders[k], in order
RECURSIVE ChainOf(_)
ChainOf(k) == IF k <= 1 THEN <<>> ELSE Append(ChainOf(madeBy[k].this), madeBy[k])

\* the argument of the latest call of a method in a chain ("undefined": none)
LatestArg(chain, method) ==
    LET at == {i \in 1..Len(chain) : chain[i].method = method}
    IN  IF at = {} THEN "undefined"
        ELSE chain[CHOOSE i \in at : \A j \in at : j <= i].arg

\* the arguments of the calls of use in a chain, in order
Registered(chain) ==
    LET uses == SelectSeq(chain, LAMBDA c : c.method = "use")
    IN  [j \in 1..Len(uses) |-> uses[j].arg]

C17_LastWriteWinsAppendOnly ==
    \A k \in 1..Len(builders) :
        /\ builders[k].config.paramsSchema = LatestArg(ChainOf(k), "params")
        /\ builders[k].config.querySchema = LatestArg(ChainOf(k), "query")
        /\ builders[k].config.bodySchema = LatestArg(ChainOf(k), "body")
        /\ builders[k].middlewares = Registered(ChainOf(k))
        /\ k > 1 =>
              LET before == builders[madeBy[k].this].middlewares
              IN  /\ Len(builders[k].middlewares) >= Len(before)
                  /\ SubSeq(builders[k].middlewares, 1, Len(before)) = before

\* C17's case: params called twice along a chain with different schemas, the
\* second one being the chain's
C17_Witness ==
    /\ Len(builders) = 3
    /\ madeBy[2].method = "params" /\ madeBy[2].this = 1
    /\ madeBy[3].method = "params" /\ madeBy[3].this = 2
    /\ madeBy[2].arg # madeBy[3].arg
    /\ builders[3].config.paramsSchema = madeBy[3].arg

(***************************************************************************)
(* C18.  Building a route runs nothing: use(...) and handler(userFn), like *)
(* the other builder calls, call no middleware, no schema and no user      *)
(* handler.  Until the route is invoked with a request nothing has run,    *)
(* and a call on the builder leaves every invocation as it is.             *)
(***************************************************************************)
C18_BuildingRunsNothing ==
    [][/\ \A r \in Invocations : route = Undefined \/ inv[r].pc = "idle" => inv[r] = IdleFrame
       /\ builder' # builder \/ route' # route =>
             /\ inv' = inv
             /\ \A r \in Invocations : inv'[r] = IdleFrame]_vars

\* C18's case: a route built over three schemas and two middleware, not yet
\* invoked
C18_Witness ==
    /\ route # Undefined
    /\ \A k \in 1..3 : Configured(Slots[k])
    /\ Len(route.this.middlewares) = 2
    /\ \A r \in Invocations : inv[r] = IdleFrame

(***************************************************************************)
(* C19.  Concurrent invocations of a route are independent.  What an       *)
(* invocation does when it runs alone: it starts from its request and its  *)
(* context, and from each await it goes on from its own params, query,     *)
(* body and middleware context only.                                       *)
(***************************************************************************)
\* the frame of a call of the route, at its first await or at its end
Called(request, context) ==
    LET f == [IdleFrame EXCEPT !.request = request, !.context = context]
    IN  IF context.params # Undefined
        THEN [f EXCEPT !.pc = "awaitParams"]
        ELSE Extraction([f EXCEPT !.params = EmptyObject])

\* the frames an invocation that runs alone goes to from the frame f
AloneSteps(f) ==
    CASE f.pc = "awaitParams" ->
            {Extraction([f EXCEPT !.params = f.context.params])}
      [] f.pc = "awaitFormData" ->
            LET formData == request_formData(f.request)
            IN  {IF formData.ok
                 THEN Validation([f EXCEPT !.body = fromEntries(formData.entries)])
                 ELSE Throw(Log(f, [ev |-> "bodyThrow", error |-> formData.error]), formData.error)}
      [] f.pc = "awaitJson" ->
            LET json == request_json(f.request)
            IN  {IF json.ok
                 THEN Validation([f EXCEPT !.body = json.value])
                 ELSE Throw(Log(f, [ev |-> "bodyThrow", error |-> json.error]), json.error)}
      [] f.pc = "awaitMiddleware" ->
            LET result == MiddlewareResult(route.this.middlewares[f.i])
                g == Log(f, [ev |-> "middlewareResult", i |-> f.i, result |-> result])
            IN  {MiddlewareLoop([g EXCEPT !.middlewareContext = Spread(f.middlewareContext, result),
                                          !.i = f.i + 1])}
                \cup {Throw(Log(f, [ev |-> "middlewareThrow", i |-> f.i, error |-> error]), error) :
                         error \in UserErrors}
      [] f.pc = "awaitHandler" ->
            {LET g == Log(f, [ev |-> "handlerResult", result |-> result])
             IN  IF IsResponse(result) THEN Return(g, result)
                 ELSE IF ~CanStringify(result)
                 THEN LET error == Error("TypeError", RawText("Do not know how to serialize a BigInt"))
                      IN  Throw(Log(g, [ev |-> "stringifyThrow", error |-> error]), error)
                 ELSE Return(g, Response(JSON_stringify(result),
                                         [status |-> 200, headers |-> [ContentType |-> "application/json"]])) :
               result \in HandlerResults(HandlerContext(f))}
                \cup {Throw(Log(f, [ev |-> "handlerThrow", error |-> error]), error) : error \in UserErrors}
      [] OTHER -> {IdleFrame}

\* C19: under every interleaving of two invocations in flight, a step changes
\* the frame of one invocation only, and changes it as that invocation's own
\* step would when it runs alone: its params, query, body, middleware context
\* and response come from its own request and from nothing of the other one.
C19_InvocationsAreIndependent ==
    [][\A r \in DOMAIN inv :
          inv'[r] # inv[r] =>
             /\ \A q \in DOMAIN inv \ {r} : inv'[q] = inv[q]
             /\ IF inv[r].pc = "idle"
                THEN \E request \in ConcurrentRequests, context \in ConcurrentContexts :
                        inv'[r] = Called(request, context)
                ELSE inv'[r] \in AloneSteps(inv[r])]_vars

\* C19's case: two invocations with different requests and different params,
\* one awaiting the second middleware while the other awaits its body
C19_Witness ==
    /\ DOMAIN inv = ConcurrentInvocations
    /\ inv["r1"].pc = "awaitMiddleware" /\ inv["r1"].i = 2
    /\ inv["r2"].pc = "awaitJson"
    /\ inv["r1"].request # inv["r2"].request
    /\ inv["r1"].context # inv["r2"].context
    /\ inv["r1"].middlewareContext # EmptyObject

(***************************************************************************)
(* C20.  Every invocation of a route ends with a response.                 *)
(***************************************************************************)
\* C20 as stated: whichever stage fails, error mapping included, the failure
\* is turned into the request's response: no invocation ends with its promise
\* rejected, and a settled invocation has exactly the one response it returned.
C20_Claimed ==
    \A r \in DOMAIN inv :
       /\ inv[r].pc # "rejected"
       /\ Done(inv[r]) => IsResponse(inv[r].response)

(***************************************************************************)
(* C21.  The stages of an invocation run in one fixed order, each after    *)
(* the one before it has completed.                                        *)
(***************************************************************************)
\* the stage an event of the trace belongs to: 1 the reading of the body, 2 to
\* 4 the validation of params, query and body, 4 + n the n-th middleware, then
\* the handler, the normalisation of its result, and the catch clause
StageOf(e) ==
    LET N == Len(route.this.middlewares)
    IN  CASE e.ev \in {"formData", "json", "bodyThrow"} -> 1
          [] e.ev = "safeParse" -> (CASE e.slot = "params" -> 2 [] e.slot = "query" -> 3 [] e.slot = "body" -> 4)
          [] e.ev \in {"middleware", "middlewareResult", "middlewareThrow"} -> 4 + e.i
          [] e.ev \in {"handler", "handlerResult", "handlerThrow"} -> 5 + N
          [] e.ev = "stringifyThrow" -> 6 + N
          [] OTHER -> 7 + N

\* the event is the beginning of a stage
Begins(e) == e.ev \in {"formData", "json", "safeParse", "middleware", "handler"}

\* the stages that have to run before the stage s begins, for the request of f
StagesBefore(f, s) ==
    {n \in 1..(s - 1) :
        \/ n = 1 /\ ReadsBody(f.request)
        \/ n \in 2..4 /\ Configured(Slots[n - 1])
        \/ n \in 5..(4 + Len(route.this.middlewares))}

\* the stage n ran and completed within the first k events of f's trace
Completed(f, n, k) ==
    \E j \in 1..k :
        LET e == f.trace[j]
        IN  /\ StageOf(e) = n
            /\ \/ e.ev \in {"formData", "json"} /\ f.pc \notin {"awaitFormData", "awaitJson"}
                                                /\ (j < Len(f.trace) => f.trace[j + 1].ev # "bodyThrow")
               \/ e.ev = "safeParse" /\ e.success
               \/ e.ev = "middlewareResult"

\* C21: in every state of an invocation, suspended or not, the events of its
\* trace are in the order extraction (the body's reading), params validation,
\* query validation, body validation, middleware 1..N, handler, normalisation;
\* a stage begins only after params, query and body were extracted and after
\* every stage before it that applies to the request has completed; and while
\* the closure awaits (the params, the body, a middleware, the handler) the
\* awaited call is the last thing that began.
C21_StagesInOrder ==
    \A r \in Invocations :
        LET f == inv[r]
            n == Len(f.trace)
        IN  /\ \A k \in 2..n :
                  /\ StageOf(f.trace[k - 1]) <= StageOf(f.trace[k])
                  /\ Begins(f.trace[k]) => StageOf(f.trace[k - 1]) < StageOf(f.trace[k])
            /\ \A k \in 1..n :
                  Begins(f.trace[k]) =>
                     /\ f.params # Undefined /\ f.query # Undefined /\ f.body # Undefined
                     /\ \A s \in StagesBefore(f, StageOf(f.trace[k])) : Completed(f, s, k - 1)
            /\ f.pc = "awaitParams" => n = 0 /\ f.query = Undefined /\ f.body = Undefined
            /\ f.pc \in {"awaitFormData", "awaitJson"} =>
                  n = 1 /\ f.trace[1].ev = (IF f.pc = "awaitJson" THEN "json" ELSE "formData")
            /\ f.pc = "awaitMiddleware" => n > 0 /\ f.trace[n].ev = "middleware" /\ f.trace[n].i = f.i
            /\ f.pc = "awaitHandler" => n > 0 /\ f.trace[n].ev = "handler"

\* C21's case: an invocation that went through every stage: awaited params, a
\* body read, three schemas, two middlewares, the handler and its result
C21_Witness ==
    \E r \in Invocations :
        /\ Done(inv[r])
        /\ inv[r].context.params # Undefined
        /\ [k \in 1..Len(inv[r].trace) |-> inv[r].trace[k].ev]
              = <<"json", "safeParse", "safeParse", "safeParse", "middleware", "middlewareResult",
                  "middleware", "middlewareResult", "handler", "handlerResult">>

(***************************************************************************)
(* C22.  The handler is never given a partial context.                     *)
(***************************************************************************)
\* the fragments of all the registered middleware, in registration order
AllFragments == [j \in 1..Len(route.this.middlewares) |-> MiddlewareResult(route.this.middlewares[j])]

\* C22: whenever the handler is called, every registered middleware was called
\* and resolved before the call, none threw, and data is the merge of all their
\* fragments; and in an invocation where a middleware threw, the handler is not
\* called, neither before nor after the throw.
C22_NoPartialContext ==
    \A r \in Invocations :
        LET f == inv[r]
        IN  /\ \A k \in 1..Len(f.trace) :
                  f.trace[k].ev = "handler" =>
                     /\ \A j \in 1..Len(route.this.middlewares) :
                           \E m \in 1..(k - 1) : f.trace[m].ev = "middlewareResult" /\ f.trace[m].i = j
                     /\ f.trace[k].context.data = MergeOf(AllFragments)
            /\ Events(f, "middlewareThrow") # <<>> => Events(f, "handler") = <<>>

\* C22's case: the first of two middlewares resolved, the second threw, and
\* the request was answered without a call of the handler
C22_Witness ==
    \E r \in Invocations :
        /\ Done(inv[r])
        /\ Len(route.this.middlewares) = 2
        /\ Len(Events(inv[r], "middlewareResult")) = 1
        /\ Len(Events(inv[r], "middlewareThrow")) = 1
        /\ Events(inv[r], "middlewareThrow")[1].i = 2
        /\ Events(inv[r], "handler") = <<>>

(***************************************************************************)
(* C23.  A slot without schema is not validated and is passed through.     *)
(***************************************************************************)
\* the value of the slot in the context argument of a handler event
SlotOf(ctx, slot) ==
    CASE slot = "params" -> ctx.params
      [] slot = "query" -> ctx.query
      [] slot = "body" -> ctx.body

C24_ContentTypeSelectsParser ==
    \A r \in Invocations :
        LET f == inv[r]
            form == /\ headers_get(f.request.headers, "contentType") # "null"
                    /\ headers_get(f.request.headers, "contentType")
                          \in {"multipart/form-data; boundary=x", "application/x-www-form-urlencoded"}
            parsed == IF form
                      THEN fromEntries(request_formData(f.request).entries)
                      ELSE request_json(f.request).value
        IN  f.trace # <<>> /\ ReadsBody(f.request) =>
               /\ f.trace[1].ev = (IF form THEN "formData" ELSE "json")
               /\ \A k \in 2..Len(f.trace) : f.trace[k].ev \notin {"formData", "json"}
               /\ \A k \in 1..Len(f.trace) :
                     /\ f.trace[k].ev = "safeParse" /\ f.trace[k].slot = "body" =>
                           f.trace[k].success = safeParse(Config.bodySchema, parsed).success
                     /\ f.trace[k].ev = "handler" =>
                           f.trace[k].context.body =
                              IF Configured("body") THEN safeParse(Config.bodySchema, parsed).data ELSE parsed

\* C24's case: a urlencoded POST of field=test-field to a route whose body
\* schema requires a string field, answered 200 with body {field: "test-field"}
C24_Witness ==
    \E r \in Invocations :
        /\ Done(inv[r])
        /\ inv[r].request.method = "POST"
        /\ inv[r].request.headers = [contentType |-> "application/x-www-form-urlencoded"]
        /\ inv[r].request.payload = "field=test-field"
        /\ Configured("body")
        /\ inv[r].trace[1].ev = "formData"
        /\ inv[r].response.status = 200
        /\ inv[r].response.body.json.body = [field |-> "test-field"]

(***************************************************************************)
(* C25.  A route depends on the chain it was built by only through the     *)
(* chain's final schemas and the order of its use calls.                   *)
(***************************************************************************)
\* the builder that a chain's final schemas and its use calls, in their order,
\* determine
BuilderOf(chain) ==
    RouteHandlerBuilder(
       [config |-> [paramsSchema |-> LatestArg(chain, "params"),
                    querySchema |-> LatestArg(chain, "query"),
                    bodySchema |-> LatestArg(chain, "body")],
        middlewares |-> Registered(chain)])

\* the chains of calls that the invoked route was built by
ServedChains ==
    {ChainOf(routes[k].this) :
        k \in {j \in 1..Len(routes) :
                  route = [this |-> builders[routes[j].this], handler |-> routes[j].handler]}}

\* C25: however the params, query and use calls are interleaved in the chain a
\* route was built by, the builder its closure reads is the one determined by
\* the chain's final schemas and the order of its use calls (so .use(m).params(p)
\* and .params(p).use(m) give routes that respond alike to every request); and
\* in every invocation every validation runs before any middleware, each
\* schema on its slot's extracted value and the middleware in their order of
\* registration, so that a request some final schema rejects is answered 400
\* without any middleware being called, even when use came first in the chain.
C25_InterleavingIsIrrelevant ==
    route # Undefined =>
        \A chain \in ServedChains :
            /\ route.this = BuilderOf(chain)
            /\ \A r \in Invocations :
                  LET f == inv[r]
                      n == Len(f.trace)
                  IN  /\ \A a, b \in 1..n :
                            f.trace[a].ev = "middleware" /\ f.trace[b].ev = "safeParse" => b < a
                      /\ \A a \in 1..n :
                            /\ f.trace[a].ev = "middleware" => f.trace[a].fn = Registered(chain)[f.trace[a].i]
                            /\ f.trace[a].ev = "safeParse" =>
                                  LET given == LatestArg(chain, f.trace[a].slot)
                                  IN  /\ given # "undefined"
                                      /\ f.trace[a].success = safeParse(given, Raw(f, f.trace[a].slot)).success
                      /\ /\ Done(f)
                         /\ Parseable(f.request)
                         /\ \E s \in 1..3 :
                               /\ LatestArg(chain, Slots[s]) # "undefined"
                               /\ ~safeParse(LatestArg(chain, Slots[s]), Raw(f, Slots[s])).success
                         => /\ f.response.status = 400
                            /\ Events(f, "middleware") = <<>>

\* C25's case: a route built by .use(m).params(p), invoked with params that p
\* rejects: it is answered "Invalid params" and m was not called
C25_Witness ==
    /\ route # Undefined
    /\ \E chain \in ServedChains :
          /\ Len(chain) = 2
          /\ chain[1].method = "use" /\ chain[2].method = "params"
    /\ \E r \in Invocations :
          /\ Done(inv[r])
          /\ IsInvalid(inv[r].response, "params")
          /\ Events(inv[r], "middleware") = <<>>

(***************************************************************************)
(* C26.  Within one invocation nothing runs twice and nothing is retried.  *)
(***************************************************************************)
\* the event reports a failure: a parser, a schema, a middleware, the handler
\* or the serialisation of its result
IsFailure(e) ==
    \/ e.ev \in {"bodyThrow", "middlewareThrow", "handlerThrow", "stringifyThrow"}
    \/ e.ev = "safeParse" /\ ~e.success

\* the invocation has returned or thrown
Settled(f) == f.pc \in {"done", "rejected"}

\* C26: in every invocation each configured schema is run at most once (and a
\* schema that is not configured never), the middleware registered at each
\* position is called at most once, the handler at most once and the custom
\* error handler at most once; after a failure no parser, schema, middleware or
\* handler is called again; a call of the handler implies that the body was
\* extracted, that every configured schema accepted and that every middleware
\* resolved; and an invocation that has settled called the handler exactly once
\* if and only if all of those succeeded.
C26_AtMostOnce ==
    \A r \in Invocations :
        LET f == inv[r]
            n == Len(f.trace)
            count(P(_)) == Cardinality({k \in 1..n : P(f.trace[k])})
            succeeded == /\ Parseable(f.request)
                         /\ \A s \in 1..3 : Passes(f, Slots[s])
                         /\ Events(f, "middlewareThrow") = <<>>
        IN  n > 0 =>
               /\ \A s \in 1..3 :
                     count(LAMBDA e : e.ev = "safeParse" /\ e.slot = Slots[s])
                        <= (IF Configured(Slots[s]) THEN 1 ELSE 0)
               /\ \A i \in 1..Len(route.this.middlewares) :
                     count(LAMBDA e : e.ev = "middleware" /\ e.i = i) <= 1
               /\ count(LAMBDA e : e.ev = "middleware") <= Len(route.this.middlewares)
               /\ count(LAMBDA e : e.ev \in {"formData", "json"}) <= 1
               /\ count(LAMBDA e : e.ev = "handler") <= 1
               /\ count(LAMBDA e : e.ev = "handleServerError") <= 1
               /\ \A j, k \in 1..n :
                     j < k /\ IsFailure(f.trace[j]) =>
                        f.trace[k].ev \notin {"formData", "json", "safeParse", "middleware", "handler"}
               /\ count(LAMBDA e : e.ev = "handler") = 1 => succeeded
               /\ Settled(f) => (count(LAMBDA e : e.ev = "handler") = 1 <=> succeeded)

\* C26's case: three schemas and two middlewares each ran once, the handler was
\* called once and threw, and the custom error handler was called once
C26_Witness ==
    \E r \in Invocations :
        /\ Done(inv[r])
        /\ Len(Events(inv[r], "safeParse")) = 3
        /\ Len(Events(inv[r], "middleware")) = 2
        /\ Len(Events(inv[r], "handler")) = 1
        /\ Len(Events(inv[r], "handlerThrow")) = 1
        /\ Len(Events(inv[r], "handleServerError")) = 1

C27_DefaultReachesHandler ==
    \E r \in Invocations :
        /\ Done(inv[r])
        /\ inv[r].request.method = "GET"
        /\ Config.bodySchema = "defaultSchema"
        /\ Len(Events(inv[r], "handler")) = 1
        /\ Events(inv[r], "handler")[1].context.body = [field |-> "none"]
        /\ inv[r].response.status = 200

====
